---- MODULE Spec2Model ----
(***************************************************************************)
(* RFI Progress Dashboard (src/app.py): the status classifier, the         *)
(* per-sheet statistics and the loop of render_dashboard over a workbook.  *)
(*                                                                         *)
(* Text is a sequence of characters, each character a one-character        *)
(* string; the check mark U+2714 is the character "u2714".  A Python       *)
(* value (a cell, a column name) is a record [k, s, n]: k = "str" with the *)
(* text s, k = "int" with the integer n, k = "nan" (the float NaN pandas   *)
(* puts in a blank cell) or k = "none" (None).                             *)
(***************************************************************************)
EXTENDS Integers, Sequences, FiniteSets

VARIABLES
    pc,         \* where the script is: "render", "done", "aborted", or a function-call position
    sheets,     \* the dict read_excel returned, in its order: a sequence of DataFrames
    orig,       \* history: the workbook as it was read, never changed
    idx,        \* render_dashboard's loop position over sheets
    rendered,   \* what render_dashboard has drawn so far, one record per sheet drawn
    err,        \* the exception that ended the script run, "" when none
    value,      \* classify_status's argument
    label,      \* classify_status's return value
    closed,     \* a sheet's Closed count, as handed to the progress computation
    total,      \* a sheet's row count
    shown       \* the percentage written under the progress bar

vars == <<pc, sheets, orig, idx, rendered, err, value, label, closed, total, shown>>

\* ------------------------------------------------------------------ bounds

\* Longest text handed to classify_status, in chunks of Chunks.
MaxChunks == 3
\* Most data rows of the workbook, over all its sheets.
MaxRows == 3
\* Most sheets of the workbook.
MaxSheets == 2
\* Largest row count handed to the progress computation on its own.
MaxTotal == 50

\* ------------------------------------------------------------ Python values

PyStr(s) == [k |-> "str", s |-> s, n |-> 0]
PyInt(n) == [k |-> "int", s |-> <<>>, n |-> n]
PyNaN == [k |-> "nan", s |-> <<>>, n |-> 0]
PyNone == [k |-> "none", s |-> <<>>, n |-> 0]

UpperChars == <<"A","B","C","D","E","F","G","H","I","J","K","L","M",
                "N","O","P","Q","R","S","T","U","V","W","X","Y","Z">>
LowerChars == <<"a","b","c","d","e","f","g","h","i","j","k","l","m",
                "n","o","p","q","r","s","t","u","v","w","x","y","z">>
DigitChars == <<"0","1","2","3","4","5","6","7","8","9">>

Range(f) == {f[i] : i \in DOMAIN f}

IsSpace(c) == c \in {" ", "\t", "\n"}
\* The regular expression class \w: letters, digits and the underscore.
IsWord(c) == c \in Range(UpperChars) \cup Range(LowerChars) \cup Range(DigitChars) \cup {"_"}

\* str.lower(), one character.
lower_char(c) ==
    IF \E i \in DOMAIN UpperChars : UpperChars[i] = c
    THEN LowerChars[CHOOSE i \in DOMAIN UpperChars : UpperChars[i] = c]
    ELSE c

\* str.lower()
lower(s) == [i \in 1..Len(s) |-> lower_char(s[i])]

RECURSIVE lstrip(_)
lstrip(s) == IF s # <<>> /\ IsSpace(Head(s)) THEN lstrip(Tail(s)) ELSE s

RECURSIVE rstrip(_)
rstrip(s) == IF s # <<>> /\ IsSpace(s[Len(s)]) THEN rstrip(SubSeq(s, 1, Len(s) - 1)) ELSE s

\* str.strip()
strip(s) == rstrip(lstrip(s))

\* Python's `k in s` on two strings: k is a contiguous substring of s.
contains(k, s) == \E i \in 0..(Len(s) - Len(k)) : SubSeq(s, i + 1, i + Len(k)) = k

\* any(k in s for k in keys)
any_in(keys, s) == \E j \in DOMAIN keys : contains(keys[j], s)

RECURSIVE int_digits(_)
int_digits(n) ==
    IF n < 10 THEN <<DigitChars[n + 1]>>
    ELSE int_digits(n \div 10) \o <<DigitChars[(n % 10) + 1]>>

\* str(x) of a cell value.
py_str(v) ==
    CASE v.k = "str" -> v.s
      [] v.k = "int" -> IF v.n < 0 THEN <<"-">> \o int_digits(-v.n) ELSE int_digits(v.n)
      [] v.k = "nan" -> <<"n","a","n">>
      [] v.k = "none" -> <<"N","o","n","e">>

\* ------------------------------------------------- status normalization rules

CLOSED == << <<"c","l","o","s","e","d">>, <<"d","o","n","e">>,
             <<"c","o","m","p","l","e","t","e","d">>, <<"r","e","s","o","l","v","e","d">>,
             <<"f","i","n","a","l">>, <<"u2714">> >>
INPROG == << <<"i","n"," ","p","r","o","g","r","e","s","s">>, <<"w","i","p">>,
             <<"w","o","r","k","i","n","g">>, <<"o","n","g","o","i","n","g">> >>

\* The three labels classify_status returns.
Closed == <<"C","l","o","s","e","d">>
InProgress == <<"I","n"," ","P","r","o","g","r","e","s","s">>
Pending == <<"P","e","n","d","i","n","g">>
NotReviewed == <<"N","o","t"," ","r","e","v","i","e","w","e","d">>

\* Mutant: str() is left out, so a value that is no string has no .lower().
classify_status_NoStr(s) ==
    IF s.k # "str" THEN <<"A","t","t","r","i","b","u","t","e","E","r","r","o","r">>
    ELSE LET t == strip(lower(s.s)) IN
         IF any_in(CLOSED, t) THEN Closed
         ELSE IF any_in(INPROG, t) THEN InProgress
         ELSE Pending

\* Mutant: In Progress is tested before Closed.
classify_status_InprogFirst(s) ==
    LET t == strip(lower(py_str(s))) IN
    IF any_in(INPROG, t) THEN InProgress
    ELSE IF any_in(CLOSED, t) THEN Closed
    ELSE Pending

\* Mutant: a value containing review is Pending before In Progress is tested.
classify_status_ReviewFirst(s) ==
    LET t == strip(lower(py_str(s))) IN
    IF any_in(CLOSED, t) THEN Closed
    ELSE IF contains(<<"r","e","v","i","e","w">>, t) THEN Pending
    ELSE IF any_in(INPROG, t) THEN InProgress
    ELSE Pending

\* Mutant: the text is not lower-cased.
classify_status_NoLower(s) ==
    LET t == strip(py_str(s)) IN
    IF any_in(CLOSED, t) THEN Closed
    ELSE IF any_in(INPROG, t) THEN InProgress
    ELSE Pending

\* Mutant: the default label of the two-bucket variants.
classify_status_NotReviewed(s) ==
    LET t == strip(lower(py_str(s))) IN
    IF any_in(CLOSED, t) THEN Closed
    ELSE IF any_in(INPROG, t) THEN InProgress
    ELSE NotReviewed

classify_status(s) ==
    LET t == strip(lower(py_str(s))) IN
    IF any_in(CLOSED, t) THEN Closed
    ELSE IF any_in(INPROG, t) THEN InProgress
    ELSE Pending

\* ------------------------------------------------------- float arithmetic
\* closed / total is a true division of integers and progress * 100 a float
\* product: both round to the nearest IEEE double, ties to even.  A natural
\* number too wide for a machine integer is a sequence of bits, least
\* significant first; a float is m * 2^e with m such a sequence of MantBits
\* bits whose top bit is 1, or <<>> for 0.0.

\* Bits of a double's significand.
MantBits == 53

PyFloat(m, e) == [k |-> "float", m |-> m, e |-> e, n |-> 0]
PyNum(n) == [k |-> "int", m |-> <<>>, e |-> 0, n |-> n]

Reverse(s) == [i \in 1..Len(s) |-> s[Len(s) + 1 - i]]
Zeros(n) == [i \in 1..n |-> 0]

RECURSIVE BNorm(_)
BNorm(a) == IF a # <<>> /\ a[Len(a)] = 0 THEN BNorm(SubSeq(a, 1, Len(a) - 1)) ELSE a

RECURSIVE BFromNat(_)
BFromNat(n) == IF n = 0 THEN <<>> ELSE <<n % 2>> \o BFromNat(n \div 2)

RECURSIVE BToNat(_)
BToNat(a) == IF a = <<>> THEN 0 ELSE a[1] + 2 * BToNat(Tail(a))

RECURSIVE BAddC(_, _, _)
BAddC(a, b, c) ==
    IF a = <<>> /\ b = <<>> THEN (IF c = 0 THEN <<>> ELSE <<c>>)
    ELSE LET x == IF a = <<>> THEN 0 ELSE a[1]
             y == IF b = <<>> THEN 0 ELSE b[1]
             t == x + y + c
         IN <<t % 2>> \o BAddC(IF a = <<>> THEN a ELSE Tail(a),
                               IF b = <<>> THEN b ELSE Tail(b), t \div 2)

BAdd(a, b) == BNorm(BAddC(a, b, 0))

RECURSIVE BMulSmall(_, _)
BMulSmall(a, k) ==
    IF k = 0 \/ a = <<>> THEN <<>>
    ELSE BAdd(IF k % 2 = 1 THEN a ELSE <<>>, <<0>> \o BMulSmall(a, k \div 2))

\* a <= b, both without leading zeros.
RECURSIVE BLe(_, _)
BLe(a, b) ==
    IF Len(a) # Len(b) THEN Len(a) < Len(b)
    ELSE IF a = <<>> THEN TRUE
    ELSE IF a[Len(a)] # b[Len(b)] THEN a[Len(a)] < b[Len(b)]
    ELSE BLe(BNorm(SubSeq(a, 1, Len(a) - 1)), BNorm(SubSeq(b, 1, Len(b) - 1)))

\* Round to nearest, ties to even: m holds the MantBits kept bits, guard the
\* first dropped bit, sticky whether any later dropped bit is set.
round_even(m, guard, sticky, e) ==
    IF guard = 1 /\ (sticky \/ m[1] = 1)
    THEN LET up == BAdd(m, <<1>>) IN
         IF Len(up) > MantBits THEN PyFloat(Tail(up), e + 1) ELSE PyFloat(up, e)
    ELSE PyFloat(m, e)

RECURSIVE Pow2(_)
Pow2(n) == IF n = 0 THEN 1 ELSE 2 * Pow2(n - 1)

\* The next n quotient bits of r / den, most significant first.
RECURSIVE div_bits(_, _, _)
div_bits(r, den, n) ==
    IF n = 0 THEN <<>>
    ELSE LET b == IF 2 * r >= den THEN 1 ELSE 0
         IN <<b>> \o div_bits(2 * r - b * den, den, n - 1)

\* The remainder left after those n bits.
RECURSIVE div_rem(_, _, _)
div_rem(r, den, n) ==
    IF n = 0 THEN r
    ELSE div_rem(2 * r - (IF 2 * r >= den THEN den ELSE 0), den, n - 1)

\* c / t for integers c >= 0 and t > 0, as a double.
float_div(c, t) ==
    IF c = 0 THEN PyFloat(<<>>, 0)
    ELSE LET up == IF c >= t THEN CHOOSE u \in 0..31 : t * Pow2(u) <= c /\ c < t * Pow2(u + 1) ELSE 0
             dn == IF c < t THEN CHOOSE s \in 1..31 : t <= c * Pow2(s) /\ c * Pow2(s) < 2 * t ELSE 0
             num == c * Pow2(dn)
             den == t * Pow2(up)
             m == Reverse(<<1>> \o div_bits(num - den, den, MantBits - 1))
             r == div_rem(num - den, den, MantBits - 1)
             guard == IF 2 * r >= den THEN 1 ELSE 0
         IN round_even(m, guard, 2 * r - guard * den # 0, up - dn - (MantBits - 1))

\* x * k for a float x and an integer k > 0 that a double holds exactly.
float_mul(x, k) ==
    IF x.m = <<>> THEN x
    ELSE LET p == BMulSmall(x.m, k)
             d == Len(p) - MantBits
         IN IF d = 0 THEN PyFloat(p, x.e)
            ELSE round_even(SubSeq(p, d + 1, Len(p)), p[d],
                            \E i \in 1..(d - 1) : p[i] = 1, x.e + d)

\* x * k in Python: an int stays an int.
py_mul(x, k) == IF x.k = "int" THEN PyNum(x.n * k) ELSE float_mul(x, k)

\* int(x): truncation toward zero of a value >= 0.
py_int(x) ==
    IF x.k = "int" THEN x.n
    ELSE IF x.m = <<>> THEN 0
    ELSE IF x.e >= 0 THEN BToNat(Zeros(x.e) \o x.m)
    ELSE IF -x.e >= Len(x.m) THEN 0
    ELSE BToNat(SubSeq(x.m, 1 - x.e, Len(x.m)))

\* Mutant: integer (floor) division.
progress_of_FloorDiv(c, t) == IF t # 0 THEN PyNum(c \div t) ELSE PyNum(0)

\* progress = closed / total if total else 0
progress_of(c, t) == IF t # 0 THEN float_div(c, t) ELSE PyNum(0)

\* int(stats['progress']*100)
percent_of(progress) == py_int(py_mul(progress, 100))

\* ------------------------------------------------------ stat computation
\* A DataFrame is [columns, rows]: the column labels, and the rows in order,
\* each a sequence of cells aligned with columns.

status == <<"s","t","a","t","u","s">>
bucket == <<"b","u","c","k","e","t">>

\* df.columns.str.strip().str.lower(): the .str accessor refuses an Index
\* holding no string at all (a header row of numbers); in a mixed Index a
\* label that is no string becomes NaN.
str_refuses(columns) == columns # <<>> /\ \A i \in DOMAIN columns : columns[i].k # "str"

strip_lower(columns) ==
    [i \in DOMAIN columns |->
        IF columns[i].k = "str" THEN PyStr(lower(strip(columns[i].s))) ELSE PyNaN]

\* The position of the column labelled name.
col_pos(columns, name) == CHOOSE i \in DOMAIN columns : columns[i] = PyStr(name)

\* df[name] = vals
set_column(df, name, vals) ==
    IF PyStr(name) \in Range(df.columns)
    THEN [df EXCEPT !.rows = [r \in DOMAIN df.rows |->
                                 [df.rows[r] EXCEPT ![col_pos(df.columns, name)] = vals[r]]]]
    ELSE [columns |-> Append(df.columns, PyStr(name)),
          rows |-> [r \in DOMAIN df.rows |-> Append(df.rows[r], vals[r])]]

\* df[name]
get_column(df, name) == [r \in DOMAIN df.rows |-> df.rows[r][col_pos(df.columns, name)]]

\* (series == x).sum()
count_eq(series, x) == Cardinality({r \in DOMAIN series : series[r] = x})

\* Series.unique(): the distinct values in the order of their first occurrence.
RECURSIVE unique(_)
unique(series) ==
    IF series = <<>> THEN <<>>
    ELSE LET init == unique(SubSeq(series, 1, Len(series) - 1))
             last == series[Len(series)]
         IN IF last \in Range(init) THEN init ELSE Append(init, last)

NoStats == [none |-> TRUE, total |-> 0, closed |-> 0, prog |-> 0, pending |-> 0,
            progress |-> PyNum(0)]

\* Mutant: the labels overwrite the status column.
bucket_column_Status == status

\* The column compute_stats writes the labels to.
bucket_column == bucket

\* What compute_stats(df) does: exc the exception it raises ("" when none), df
\* the caller's table as the call leaves it, ret the returned record (none for
\* None).  stats["df"] is that same table.
compute_stats(df) ==
    IF str_refuses(df.columns)
    THEN [exc |-> "AttributeError", df |-> df, ret |-> NoStats]
    ELSE LET df1 == [df EXCEPT !.columns = strip_lower(df.columns)] IN
         IF PyStr(status) \notin Range(df1.columns)
         THEN [exc |-> "", df |-> df1, ret |-> NoStats]
         ELSE LET st == get_column(df1, status)
                  df2 == set_column(df1, bucket_column,
                                    [r \in DOMAIN st |-> PyStr(classify_status(st[r]))])
                  b == get_column(df2, bucket_column)
                  n == Len(df2.rows)
                  c == count_eq(b, PyStr(Closed))
              IN [exc |-> "", df |-> df2,
                  ret |-> [none |-> FALSE, total |-> n, closed |-> c,
                           prog |-> count_eq(b, PyStr(InProgress)),
                           pending |-> count_eq(b, PyStr(Pending)),
                           progress |-> progress_of(c, n)]]

\* ------------------------------------------------- the percentage on its own

InitPercent ==
    /\ pc = "percent"
    /\ total \in 0..MaxTotal
    /\ closed \in 0..total
    /\ shown = -1
    /\ sheets = <<>> /\ orig = <<>> /\ idx = 0 /\ rendered = <<>> /\ err = ""
    /\ value = PyNone /\ label = <<>>

ShowPercent ==
    /\ pc = "percent"
    /\ shown' = percent_of(progress_of(closed, total))
    /\ pc' = "shown"
    /\ UNCHANGED <<sheets, orig, idx, rendered, err, value, label, closed, total>>

SpecPercent == InitPercent /\ [][ShowPercent]_vars

\* --------------------------------------------------- the classifier on its own

Chunks == { <<"c","l","o">>, <<"s","e","d">>, <<"D","o","n","e">>, <<"w","i","p">>,
            <<"R","e","v","i","e","w">>, <<"u2714">>, <<"-">>, <<" ">> }

RECURSIVE Texts(_)
Texts(n) ==
    IF n = 0 THEN {<<>>}
    ELSE LET p == Texts(n - 1) IN p \cup {t \o c : t \in p, c \in Chunks}

Values == {PyStr(t) : t \in Texts(MaxChunks)} \cup {PyNone, PyNaN, PyInt(0), PyInt(42)}

InitClassify ==
    /\ pc = "classify"
    /\ value \in Values
    /\ label = <<>>
    /\ sheets = <<>> /\ orig = <<>> /\ idx = 0 /\ rendered = <<>> /\ err = ""
    /\ closed = 0 /\ total = 0 /\ shown = -1

Classify ==
    /\ pc = "classify"
    /\ label' = classify_status(value)
    /\ pc' = "classified"
    /\ UNCHANGED <<sheets, orig, idx, rendered, err, value, closed, total, shown>>

SpecClassify == InitClassify /\ [][Classify]_vars

\* ------------------------------------------------------ main render function

\* The header rows a sheet of the workbook may have: one with a status column,
\* one of a string and a number, one of a number only.
Headers == { <<PyStr(<<"I","D">>), PyStr(<<" ","S","t","a","t","u","s"," ">>)>>,
             <<PyStr(<<"I","D">>), PyInt(2021)>>,
             <<PyInt(2021)>> }

\* The status cells a sheet may hold: a blank cell is read as NaN.
Cells == { PyStr(<<"D","o","n","e">>), PyStr(<<"w","i","p">>), PyNaN }

\* The sheets with header row h and n data rows: a cell holds its row's number,
\* and any of Cells under a header that reads Status.
SheetsOf(h, n) ==
    LET free == {i \in DOMAIN h : h[i].k = "str" /\ lower(strip(h[i].s)) = status} IN
    {[columns |-> h,
      rows |-> [r \in 1..n |-> [i \in DOMAIN h |-> IF i \in free THEN c[r][i] ELSE PyInt(r)]]] :
        c \in [1..n -> [free -> Cells]]}

\* The sheets of at most n data rows.
SheetsUpTo(n) == UNION {SheetsOf(h, m) : h \in Headers, m \in 0..n}

RECURSIVE RowsIn(_)
RowsIn(w) == IF w = <<>> THEN 0 ELSE Len(Head(w).rows) + RowsIn(Tail(w))

\* The workbooks of k sheets, in every order, holding at most MaxRows data rows.
RECURSIVE WorkbooksOf(_)
WorkbooksOf(k) ==
    IF k = 0 THEN {<<>>}
    ELSE UNION {{Append(w, s) : s \in SheetsUpTo(MaxRows - RowsIn(w))} : w \in WorkbooksOf(k - 1)}

Workbooks == UNION {WorkbooksOf(k) : k \in 1..MaxSheets}

Init ==
    /\ pc = "render"
    /\ sheets \in Workbooks
    /\ orig = sheets
    /\ idx = 1
    /\ rendered = <<>>
    /\ err = ""
    /\ value = PyNone /\ label = <<>> /\ closed = 0 /\ total = 0 /\ shown = -1

\* compute_stats raises: the exception leaves render_dashboard and ends the run.
AbortRender ==
    /\ pc = "render" /\ idx <= Len(sheets)
    /\ compute_stats(sheets[idx]).exc # ""
    /\ err' = compute_stats(sheets[idx]).exc
    /\ pc' = "aborted"
    /\ UNCHANGED <<sheets, orig, idx, rendered, value, label, closed, total, shown>>

\* stats is None: continue.
SkipSheet ==
    /\ pc = "render" /\ idx <= Len(sheets)
    /\ LET r == compute_stats(sheets[idx]) IN
        /\ r.exc = "" /\ r.ret.none
        /\ sheets' = [sheets EXCEPT ![idx] = r.df]
    /\ idx' = idx + 1
    /\ UNCHANGED <<pc, orig, rendered, err, value, label, closed, total, shown>>

\* The sheet's card: badges, progress bar and percentage, pie counts, chips.
RenderSheet ==
    /\ pc = "render" /\ idx <= Len(sheets)
    /\ LET r == compute_stats(sheets[idx]) IN
        /\ r.exc = "" /\ ~r.ret.none
        /\ sheets' = [sheets EXCEPT ![idx] = r.df]
        /\ rendered' = Append(rendered,
              [sheet |-> idx,
               total |-> r.ret.total,
               closed |-> r.ret.closed,
               prog |-> r.ret.prog,
               pending |-> r.ret.pending,
               progress |-> r.ret.progress,
               percent |-> percent_of(r.ret.progress),
               chips |-> unique(get_column(r.df, status))])
    /\ idx' = idx + 1
    /\ UNCHANGED <<pc, orig, err, value, label, closed, total, shown>>

\* The loop over sheets.items() is exhausted.
FinishRender ==
    /\ pc = "render" /\ idx > Len(sheets)
    /\ pc' = "done"
    /\ UNCHANGED <<sheets, orig, idx, rendered, err, value, label, closed, total, shown>>

Next == AbortRender \/ SkipSheet \/ RenderSheet \/ FinishRender

Spec == Init /\ [][Next]_vars

\* ------------------------------------------------------------------ claims

Labels == {Closed, InProgress, Pending}
review == <<"r","e","v","i","e","w">>

\* The lower-cased text of the value handed to classify_status.
Text == lower(py_str(value))
HasClosed == any_in(CLOSED, Text)
HasInprog == any_in(INPROG, Text)
HasReview == contains(review, Text)

\* s without its characters that are neither alphanumeric nor whitespace.
RECURSIVE RemoveSymbols(_)
RemoveSymbols(s) ==
    IF s = <<>> THEN <<>>
    ELSE IF IsWord(Head(s)) \/ IsSpace(Head(s)) THEN <<Head(s)>> \o RemoveSymbols(Tail(s))
    ELSE RemoveSymbols(Tail(s))

\* The five Closed keywords that are words.
ClosedWords == SubSeq(CLOSED, 1, 5)

\* A sheet as read has a column whose label normalizes to status.
IsStatusLabel(c) == c.k = "str" /\ lower(strip(c.s)) = status
HasStatus(df) == \E i \in DOMAIN df.columns : IsStatusLabel(df.columns[i])
\* That column's cells as read, in row order.
OrigStatus(df) ==
    LET p == CHOOSE i \in DOMAIN df.columns : IsStatusLabel(df.columns[i])
    IN [r \in DOMAIN df.rows |-> df.rows[r][p]]
FirstIndex(series, x) == CHOOSE i \in DOMAIN series :
    series[i] = x /\ \A j \in 1..(i - 1) : series[j] # x

\* The float x is a double nearest to c / t: |x - c/t| <= half a unit in the
\* last place, stated by multiplying out, 2 |m t - c 2^(-e)| <= t.
Nearest(x, c, t) ==
    /\ x.k = "float"
    /\ IF c = 0 THEN x.m = <<>>
       ELSE /\ Len(x.m) = MantBits /\ x.m[MantBits] = 1 /\ x.e < 0
            /\ LET a == BMulSmall(x.m, 2 * t)
                   b == Zeros(-x.e) \o BFromNat(2 * c)
               IN BLe(a, BAdd(b, BFromNat(t))) /\ BLe(b, BAdd(a, BFromNat(t)))
\* 0 <= x <= 1 for an int or a float x.
InUnit(x) ==
    IF x.k = "int" THEN x.n \in {0, 1}
    ELSE \/ x.m = <<>>
         \/ x.e <= -MantBits
         \/ x.e = 1 - MantBits /\ x.m = Zeros(MantBits - 1) \o <<1>>

\* C1: every record compute_stats returns for a sheet with a status column has
\* closed + prog + pending = total, and total is the sheet's row count.
C1_BucketsPartitionRows ==
    \A j \in DOMAIN rendered :
        LET r == rendered[j] IN
        /\ HasStatus(orig[r.sheet])
        /\ r.total = Len(orig[r.sheet].rows)
        /\ r.closed + r.prog + r.pending = r.total

C1_Witness ==
    \E j \in DOMAIN rendered :
        rendered[j].closed = 1 /\ rendered[j].prog = 1 /\ rendered[j].pending = 1

\* C2: once render_dashboard has ended, every sheet of the workbook that has a
\* status column has been rendered, whatever sheets without one surround it.
C2_SheetsWithStatusRendered ==
    pc \in {"done", "aborted"} =>
        \A i \in DOMAIN orig :
            HasStatus(orig[i]) => \E j \in DOMAIN rendered : rendered[j].sheet = i

\* C3: the caller's tables keep the column labels they were read with.
C3_InputNotMutated ==
    \A i \in DOMAIN sheets : sheets[i].columns = orig[i].columns

\* C4 as stated: a value containing review and no Closed keyword is Pending.
C4_ReviewIsPending ==
    pc = "classified" /\ HasReview /\ ~HasClosed => label = Pending

\* C4 amended: a value containing review and no Closed keyword is In Progress
\* when it contains an in-progress keyword, and Pending only when it does not.
C4_ReviewPendingUnlessInProgress ==
    pc = "classified" /\ HasReview /\ ~HasClosed =>
        label = (IF HasInprog THEN InProgress ELSE Pending)

C4_Witness ==
    pc = "classified" /\ HasReview /\ ~HasClosed /\ HasInprog /\ label = InProgress

\* C5 as stated: classify_status(v) is classify_status of v with its symbols
\* removed.
C5_SymbolsRemoved ==
    pc = "classified" => label = classify_status(PyStr(RemoveSymbols(py_str(value))))

\* C5 amended: the input is only lower-cased and stripped of outer whitespace:
\* classify_status(v) is classify_status of that text; a value made of symbols
\* only is Closed when it holds the check mark and Pending otherwise; a Closed
\* word that appears only once the symbols are removed does not match.
C5_OnlyLowerAndStrip ==
    pc = "classified" =>
        /\ label = classify_status(PyStr(strip(lower(py_str(value)))))
        /\ (Text # <<>> /\ RemoveSymbols(Text) = <<>> =>
               label = (IF contains(<<"u2714">>, Text) THEN Closed ELSE Pending))
        /\ (any_in(ClosedWords, RemoveSymbols(Text)) /\ ~HasClosed => label # Closed)

C5_Witness ==
    /\ pc = "classified"
    /\ any_in(ClosedWords, RemoveSymbols(Text)) /\ ~HasClosed /\ ~HasInprog
    /\ label = Pending

\* C6: Closed is tested first, then In Progress, by containment: a value
\* containing a Closed keyword is Closed, one containing an in-progress keyword
\* and no Closed keyword is In Progress, any other is Pending.
C6_ClosedBeforeInProgress ==
    pc = "classified" =>
        label = (IF HasClosed THEN Closed ELSE IF HasInprog THEN InProgress ELSE Pending)

C6_Witness ==
    pc = "classified" /\ HasClosed /\ HasInprog /\ HasReview /\ label = Closed

\* C7: classify_status returns one of the three labels for every value, and
\* Pending for a missing, empty or numeric value.
C7_Total ==
    pc = "classified" =>
        /\ label \in Labels
        /\ (value.k \in {"none", "nan", "int"} \/ value = PyStr(<<>>) => label = Pending)

C7_Witness ==
    pc = "classified" /\ value = PyInt(42) /\ label = Pending

\* C8: progress is closed / total when total > 0 and the integer 0 when
\* total = 0, where all counts are 0; it lies in [0, 1].
C8_Progress ==
    \A j \in DOMAIN rendered :
        LET r == rendered[j] IN
        /\ r.total = 0 => r.progress = PyNum(0) /\ r.closed = 0 /\ r.prog = 0 /\ r.pending = 0
        /\ r.total > 0 => Nearest(r.progress, r.closed, r.total)
        /\ r.total > 0 => (r.progress.m = <<>> <=> r.closed = 0)
        /\ InUnit(r.progress)

C8_Witness ==
    /\ \E j \in DOMAIN rendered : rendered[j].total = 0
    /\ \E j \in DOMAIN rendered : rendered[j].total = 3 /\ rendered[j].closed = 1

\* C9: the statuses shown for a sheet are the values its status column was read
\* with, each once, in the order of their first rows; the column itself keeps
\* those values.
C9_ChipsAreOriginalValues ==
    \A j \in DOMAIN rendered :
        LET r == rendered[j]
            col == OrigStatus(orig[r.sheet])
        IN /\ Range(r.chips) = Range(col)
           /\ \A a, b \in DOMAIN r.chips :
                  a < b => /\ r.chips[a] # r.chips[b]
                           /\ FirstIndex(col, r.chips[a]) < FirstIndex(col, r.chips[b])
           /\ get_column(sheets[r.sheet], status) = col

C9_Witness ==
    \E j \in DOMAIN rendered :
        /\ Len(orig[rendered[j].sheet].rows) = 3
        /\ Len(rendered[j].chips) = 2
        /\ OrigStatus(orig[rendered[j].sheet])[1] = OrigStatus(orig[rendered[j].sheet])[3]
        /\ rendered[j].chips[1] = PyStr(<<"w","i","p">>)

\* C10: the percentage shown is floor(100 * closed / total), and 0 for no rows.
C10_PercentIsFloor ==
    pc = "shown" =>
        shown = (IF total = 0 THEN 0 ELSE (100 * closed) \div total)

====
